---- MODULE Spec2Model ----
(***************************************************************************)
(* A model of NeuroKit's interval aggregator ppg_intervalrelated           *)
(* (neurokit2/ppg/ppg_intervalrelated.py) and of the pipeline orchestrator *)
(* ecg_process (neurokit2/ecg/ecg_process.py).                             *)
(*                                                                         *)
(* Column names are sequences of characters, so that the substring test    *)
(* `"PPG_Rate" in col` and the exact lookup `data["PPG_Rate"]` are two     *)
(* different things, as they are in the code.  A float is a fraction       *)
(* <<numerator, denominator>> in lowest terms; NaN is <<0, 0>>.            *)
(***************************************************************************)
EXTENDS Integers, Sequences, FiniteSets, TLC

VARIABLES
    ppg_pc,        \* "idle": no call in progress; "done": a call has returned or raised
    ppg_call,      \* the arguments of the last ppg_intervalrelated call
    ppg_result,    \* what that call returned or raised
    ppg_visited,   \* the keys the collection loop entered, in order
    fmt_default,   \* the default `output={}` of _ppg_intervalrelated_formatinput
    hrv_default,   \* the default `output={}` of _ppg_intervalrelated_hrv
    ecg_pc,        \* the position of ecg_process
    ecg_call,      \* the arguments of the running ecg_process call
    ecg_trace,     \* the stages invoked so far, in order
    ecg,           \* the locals of ecg_process
    ecg_result     \* what ecg_process returned or raised

ppg_vars == <<ppg_pc, ppg_call, ppg_result, ppg_visited, fmt_default, hrv_default>>
ecg_vars == <<ecg_pc, ecg_call, ecg_trace, ecg, ecg_result>>
vars == <<ppg_vars, ecg_vars>>

(***************************************************************************)
(* Bounds of the model.                                                    *)
(***************************************************************************)
\* The largest number of labels of a collection.
MaxLabels == 2
\* The longest signal given to ecg_process.
MaxN == 3

(***************************************************************************)
(* Dictionaries and numbers.                                               *)
(***************************************************************************)
EmptyDict == [k \in {} |-> <<0, 0>>]

\* dict.update(other), and the item assignment d[k] = v.
Update(d, e) == [k \in DOMAIN d \cup DOMAIN e |-> IF k \in DOMAIN e THEN e[k] ELSE d[k]]
SetItem(d, k, v) == [j \in DOMAIN d \cup {k} |-> IF j = k THEN v ELSE d[j]]

RECURSIVE GCD(_, _)
GCD(a, b) == IF b = 0 THEN a ELSE GCD(b, a % b)

NaN == <<0, 0>>
Frac(n, d) == IF d = 0 THEN NaN ELSE LET g == GCD(n, d) IN <<n \div g, d \div g>>

RECURSIVE Sum(_)
Sum(s) == IF s = <<>> THEN 0 ELSE Head(s) + Sum(Tail(s))

\* np.mean of a column of integers.
Mean(s) == Frac(Sum(s), Len(s))

\* np.where(mask)[0]: the 0-based positions of the non-zero entries.
RECURSIVE WhereFrom(_, _)
WhereFrom(mask, i) ==
    IF i > Len(mask) THEN <<>>
    ELSE (IF mask[i] # 0 THEN <<i - 1>> ELSE <<>>) \o WhereFrom(mask, i + 1)
Where(mask) == WhereFrom(mask, 1)

(***************************************************************************)
(* Column names and the tables given to ppg_intervalrelated.               *)
(***************************************************************************)
PPG_Rate == <<"P", "P", "G", "_", "R", "a", "t", "e">>
PPG_Peaks == <<"P", "P", "G", "_", "P", "e", "a", "k", "s">>
Label == <<"L", "a", "b", "e", "l">>
PPG_Rate_Smooth == PPG_Rate \o <<"_", "S", "m", "o", "o", "t", "h">>
PPG_Peaks_Raw == PPG_Peaks \o <<"_", "R", "a", "w">>
PPG_Clean == <<"P", "P", "G", "_", "C", "l", "e", "a", "n">>

\* `pattern in name` on Python strings: pattern is a contiguous part of name.
Contains(pattern, name) ==
    \E i \in 0..(Len(name) - Len(pattern)) :
        SubSeq(name, i + 1, i + Len(pattern)) = pattern

\* The column sets of the tables the model draws.
Schemas ==
    { {Label, PPG_Rate, PPG_Peaks},
      {Label, PPG_Peaks, PPG_Clean},
      {Label, PPG_Rate, PPG_Clean},
      {Label, PPG_Rate, PPG_Rate_Smooth, PPG_Peaks},
      {Label, PPG_Rate_Smooth, PPG_Peaks},
      {Label, PPG_Rate, PPG_Peaks_Raw},
      {PPG_Rate, PPG_Peaks},
      {Label, PPG_Clean} }

\* The recordings the tables hold: every column of a table has as many rows.
Recordings ==
    { [label |-> <<"r", "e", "s", "t">>, rate |-> <<60, 60, 60, 80, 80>>,
       smooth |-> <<61, 61, 61, 79, 79>>, peaks |-> <<1, 0, 1, 0, 1>>,
       raw |-> <<1, 1, 0, 0, 1>>, clean |-> <<3, 1, 4, 1, 5>>],
      [label |-> <<"t", "a", "s", "k">>, rate |-> <<90, 100, 95>>,
       smooth |-> <<92, 96, 95>>, peaks |-> <<1, 1, 0>>,
       raw |-> <<0, 1, 1>>, clean |-> <<2, 7, 1>>] }

ColumnOf(rec, c) ==
    CASE c = Label -> [i \in 1..Len(rec.rate) |-> rec.label]
      [] c = PPG_Rate -> rec.rate
      [] c = PPG_Rate_Smooth -> rec.smooth
      [] c = PPG_Peaks -> rec.peaks
      [] c = PPG_Peaks_Raw -> rec.raw
      [] OTHER -> rec.clean

\* A table: a function from its column names to the columns.
Tables == { [c \in s |-> ColumnOf(rec, c)] : s \in Schemas, rec \in Recordings }

PpgSamplingRates == {100, 1000}

\* The keys of a collection, as epochs_create names them.
KeyNames == << <<"1">>, <<"2">>, <<"3">>, <<"4">> >>
Keys == { KeyNames[i] : i \in 1..MaxLabels }

\* A collection is a dict: its keys are distinct and keep their insertion order.
Collections ==
    UNION { { d \in [1..n -> [key : Keys, table : Tables]] :
                \A i, j \in 1..n : i # j => d[i].key # d[j].key } : n \in 0..MaxLabels }

(***************************************************************************)
(* The variability metric engine hrv(peaks, sampling_rate), of             *)
(* neurokit2/hrv.  It returns one row of named metrics; which metrics it   *)
(* can compute depends on how many beats there are.                        *)
(***************************************************************************)
DFAMinPeaks == 3

hrv(peaks, sampling_rate) ==
    LET n == Len(peaks)
        meanNN == IF n < 2 THEN NaN
                  ELSE Frac((peaks[n] - peaks[1]) * 1000, (n - 1) * sampling_rate)
        time == [k \in {"HRV_MeanNN"} |-> meanNN]
    IN  IF n >= DFAMinPeaks
        THEN SetItem(time, "HRV_DFA_alpha2", Frac(n, 1))
        ELSE time

(***************************************************************************)
(* The helpers of ppg_intervalrelated.  Each returns what the call did:    *)
(* ok (it returned) or not (it raised err), and the dict `output` as the   *)
(* call left it.                                                           *)
(***************************************************************************)
\* An exception: its type, the column pattern its message quotes, the labels it names.
Error(type, quoted) == [type |-> type, mentions |-> {quoted}, labels |-> {}]
NoError == [type |-> "none", mentions |-> {}, labels |-> {}]
Returns(output) == [ok |-> TRUE, output |-> output, err |-> NoError]
Raises(err, output) == [ok |-> FALSE, output |-> output, err |-> err]

ppg_intervalrelated_formatinput(data, output) ==
    IF Cardinality({c \in DOMAIN data : Contains(PPG_Rate, c)}) = 0
    THEN Raises(Error("ValueError", PPG_Rate), output)
    ELSE IF PPG_Rate \notin DOMAIN data
    THEN Raises(Error("KeyError", PPG_Rate), output)
    ELSE Returns(SetItem(output, "PPG_Rate_Mean", Mean(data[PPG_Rate])))

ppg_intervalrelated_hrv(data, sampling_rate, output) ==
    IF Cardinality({c \in DOMAIN data : Contains(PPG_Peaks, c)}) = 0
    THEN Raises(Error("ValueError", PPG_Peaks), output)
    ELSE IF PPG_Peaks \notin DOMAIN data
    THEN Raises(Error("KeyError", PPG_Peaks), output)
    ELSE Returns(Update(output, hrv(Where(data[PPG_Peaks]), sampling_rate)))

(***************************************************************************)
(* ppg_intervalrelated on one table.  fmt and hrvd are the helpers'        *)
(* default dicts as the call finds them; the outcome names them as the     *)
(* call leaves them.                                                       *)
(***************************************************************************)
RateCols(data) == {c \in DOMAIN data : Contains(PPG_Rate, c)}

\* A plausible slip: any number of matching columns but zero is accepted.
RateColsOk_AtLeastOne(data) == Cardinality(RateCols(data)) >= 1

\* `len(rate_cols) == 1`
RateColsOk(data) == Cardinality(RateCols(data)) = 1

SingleTable(data, sampling_rate, fmt, hrvd) ==
    IF RateColsOk(data)
    THEN LET f == ppg_intervalrelated_formatinput(data, fmt)
         IN  IF ~f.ok
             THEN [ok |-> FALSE, err |-> f.err, row |-> EmptyDict, fmt |-> f.output, hrvd |-> hrvd]
             ELSE LET intervals1 == Update(EmptyDict, f.output)
                      h == ppg_intervalrelated_hrv(data, sampling_rate, hrvd)
                  IN  IF ~h.ok
                      THEN [ok |-> FALSE, err |-> h.err, row |-> EmptyDict,
                            fmt |-> f.output, hrvd |-> h.output]
                      ELSE [ok |-> TRUE, err |-> NoError, row |-> Update(intervals1, h.output),
                            fmt |-> f.output, hrvd |-> h.output]
    ELSE [ok |-> FALSE, err |-> Error("ValueError", PPG_Rate), row |-> EmptyDict,
          fmt |-> fmt, hrvd |-> hrvd]

(***************************************************************************)
(* ppg_intervalrelated on a collection: the loop over the keys, from the   *)
(* i-th on, with the rows made so far.                                     *)
(***************************************************************************)
\* One pass of the loop body on the table of one key.
CollectionBody(table, sampling_rate) ==
    IF Label \notin DOMAIN table
    THEN Raises(Error("KeyError", Label), EmptyDict)
    ELSE LET labelled == SetItem(EmptyDict, "Label", table[Label][1])
             f == ppg_intervalrelated_formatinput(table, labelled)
         IN  IF ~f.ok THEN f
             ELSE ppg_intervalrelated_hrv(table, sampling_rate, f.output)

RECURSIVE CollectionLoop(_, _, _, _)
CollectionLoop(data, sampling_rate, i, intervals) ==
    IF i > Len(data)
    THEN [ok |-> TRUE, err |-> NoError, intervals |-> intervals, visited |-> <<>>]
    ELSE LET b == CollectionBody(data[i].table, sampling_rate)
         IN  IF ~b.ok
             THEN [ok |-> FALSE, err |-> b.err, intervals |-> intervals,
                   visited |-> <<data[i].key>>]
             ELSE LET rest == CollectionLoop(data, sampling_rate, i + 1,
                                  Append(intervals, [key |-> data[i].key, row |-> b.output]))
                  IN  [rest EXCEPT !.visited = <<data[i].key>> \o @]

\* pd.DataFrame.from_dict(intervals, orient="index"): one row per key, every row
\* with every column of the frame, NaN where the key's dict has no such item.
FrameColumns(intervals) == UNION { DOMAIN intervals[i].row : i \in 1..Len(intervals) }
FromDict(intervals) ==
    [i \in 1..Len(intervals) |->
        [key |-> intervals[i].key,
         row |-> [c \in FrameColumns(intervals) |->
                    IF c \in DOMAIN intervals[i].row THEN intervals[i].row[c] ELSE NaN]]]

(***************************************************************************)
(* The calls.                                                              *)
(***************************************************************************)
NoCall == [mode |-> "none"]
NoResult == [kind |-> "none"]

\* What the caller gets: the one-row frame or the frame of the collection, or the exception.
SingleResult(r) ==
    IF r.ok THEN [kind |-> "row", row |-> r.row] ELSE [kind |-> "error", err |-> r.err]
CollectionResult(r) ==
    IF r.ok THEN [kind |-> "frame", frame |-> FromDict(r.intervals)]
    ELSE [kind |-> "error", err |-> r.err]

PpgSingle ==
    /\ ppg_pc = "idle"
    /\ \E data \in Tables, sampling_rate \in PpgSamplingRates :
         LET r == SingleTable(data, sampling_rate, fmt_default, hrv_default)
         IN  /\ ppg_call' = [mode |-> "single", data |-> data, sampling_rate |-> sampling_rate]
             /\ ppg_result' = SingleResult(r)
             /\ fmt_default' = r.fmt
             /\ hrv_default' = r.hrvd
    /\ ppg_visited' = <<>>
    /\ ppg_pc' = "done"
    /\ UNCHANGED ecg_vars

PpgCollection ==
    /\ ppg_pc = "idle"
    /\ \E data \in Collections, sampling_rate \in PpgSamplingRates :
         LET r == CollectionLoop(data, sampling_rate, 1, <<>>)
         IN  /\ ppg_call' = [mode |-> "collection", data |-> data,
                             sampling_rate |-> sampling_rate]
             /\ ppg_result' = CollectionResult(r)
             /\ ppg_visited' = r.visited
    /\ ppg_pc' = "done"
    /\ UNCHANGED <<fmt_default, hrv_default>>
    /\ UNCHANGED ecg_vars

\* The caller takes the result; the next call finds the defaults as this one left them.
PpgNextCall ==
    /\ ppg_pc = "done"
    /\ ppg_pc' = "idle"
    /\ ppg_call' = NoCall
    /\ ppg_result' = NoResult
    /\ ppg_visited' = <<>>
    /\ UNCHANGED <<fmt_default, hrv_default>>
    /\ UNCHANGED ecg_vars

(***************************************************************************)
(* ecg_process.  A DataFrame is its number of rows (a RangeIndex) and its  *)
(* columns in order, each a name and as many cells as the frame has rows;  *)
(* two columns may have the same name.                                     *)
(***************************************************************************)
\* The cell pandas puts where a frame had no row.
Missing == -1

EcgSamplingRates == {-1, 0, 1000}

\* The lengths a collaborator may give back for a signal of n samples.
Lens(n) == {m \in {n - 1, n, n + 1} : m >= 0}

Const(n, v) == [i \in 1..n |-> v]
OneHot(n) == [i \in 1..n |-> IF i = 1 THEN 1 ELSE 0]
Frame(rows, cols) == [rows |-> rows, cols |-> cols]
Column(name, vals) == [name |-> name, vals |-> vals]
EmptyFrame == Frame(0, <<>>)

\* The sorted sequence of a set of sample indices.
RECURSIVE Sorted(_)
Sorted(S) ==
    IF S = {} THEN <<>>
    ELSE LET m == CHOOSE x \in S : \A y \in S : x <= y IN <<m>> \o Sorted(S \ {m})

\* The dense mask of length n of a set of sample indices.
Dense(S, n) == [i \in 1..n |-> IF (i - 1) \in S THEN 1 ELSE 0]

\* The names the delineator and the phase assigner may give their columns.
DelineateSchemas ==
    { <<"ECG_P_Peaks", "ECG_T_Offsets">>, <<"ECG_P_Peaks", "ECG_R_Peaks">>,
      <<"ECG_P_Peaks", "ECG_Rate">>, <<"ECG_P_Peaks", "ECG_Phase_Atrial">> }
PhaseSchemas ==
    { <<"ECG_Phase_Atrial", "ECG_Phase_Ventricular">>, <<"ECG_Phase_Atrial", "ECG_P_Peaks">> }

\* pd.DataFrame({...}) of arrays: they must all have the same length.
SameLength(arrays) == \A i, j \in 1..Len(arrays) : Len(arrays[i].vals) = Len(arrays[j].vals)
DataFrame(arrays) == Frame(Len(arrays[1].vals), arrays)

Max(S) == CHOOSE x \in S : \A y \in S : y <= x

\* A column on a longer index: the rows it does not have are missing.
Reindex(col, rows) ==
    Column(col.name, [i \in 1..rows |-> IF i <= Len(col.vals) THEN col.vals[i] ELSE Missing])

RECURSIVE AllColumns(_, _)
AllColumns(frames, rows) ==
    IF frames = <<>> THEN <<>>
    ELSE [i \in 1..Len(Head(frames).cols) |-> Reindex(Head(frames).cols[i], rows)]
         \o AllColumns(Tail(frames), rows)

RECURSIVE Stacked(_, _, _)
Stacked(frames, before, rows) ==
    IF frames = <<>> THEN <<>>
    ELSE LET f == Head(frames)
         IN  [i \in 1..Len(f.cols) |->
                Column(f.cols[i].name,
                       [r \in 1..rows |-> IF r > before /\ r <= before + f.rows
                                          THEN f.cols[i].vals[r - before] ELSE Missing])]
             \o Stacked(Tail(frames), before + f.rows, rows)

RECURSIVE SumRows(_)
SumRows(frames) == IF frames = <<>> THEN 0 ELSE Head(frames).rows + SumRows(Tail(frames))

\* A plausible slip: pd.concat(frames) without axis=1 puts the frames one under the other.
ConcatRows(frames) == Frame(SumRows(frames), Stacked(frames, 0, SumRows(frames)))

RECURSIVE LastWins(_)
LastWins(cols) ==
    IF cols = <<>> THEN <<>>
    ELSE LET rest == Tail(cols)
         IN  IF \E j \in 1..Len(rest) : rest[j].name = Head(cols).name
             THEN LET later == CHOOSE j \in 1..Len(rest) :
                                   /\ rest[j].name = Head(cols).name
                                   /\ \A k \in (j + 1)..Len(rest) : rest[k].name # Head(cols).name
                  IN  <<Column(Head(cols).name, rest[later].vals)>>
                      \o LastWins(SelectSeq(rest, LAMBDA c : c.name # Head(cols).name))
             ELSE <<Head(cols)>> \o LastWins(rest)

\* A plausible slip: the frames merged into one mapping, a later column of the same
\* name replacing the earlier one.
ConcatLastWins(frames) ==
    LET rows == Max({frames[i].rows : i \in 1..Len(frames)})
    IN  Frame(rows, LastWins(AllColumns(frames, rows)))

\* pd.concat(frames, axis=1): the union of the row indexes, every column of every
\* frame in order, missing where a frame is shorter.
Concat(frames) ==
    LET rows == Max({frames[i].rows : i \in 1..Len(frames)})
    IN  Frame(rows, AllColumns(frames, rows))

\* An exception of ecg_process: its type, the stages and the lengths its message names.
EcgError(type) == [type |-> type, stages |-> {}, lengths |-> {}]

NoLocals ==
    [ecg_signal |-> <<>>, ecg_cleaned |-> <<>>, instant_peaks |-> EmptyFrame,
     rpeaks |-> EmptyDict, rate |-> <<>>, quality |-> <<>>, signals |-> EmptyFrame,
     delineate_signal |-> EmptyFrame, cardiac_phase |-> EmptyFrame, info |-> EmptyDict]

\* ecg_process(ecg_signal, sampling_rate) is called.
EcgCall ==
    /\ ecg_pc = "idle"
    /\ \E n \in 2..MaxN, sampling_rate \in EcgSamplingRates :
         ecg_call' = [n |-> n, ecg_signal |-> Const(n, 5), sampling_rate |-> sampling_rate]
    /\ ecg_pc' = "sanitize"
    /\ ecg_trace' = <<>>
    /\ ecg' = NoLocals
    /\ ecg_result' = NoResult
    /\ UNCHANGED ppg_vars

\* ecg_signal = signal_sanitize(ecg_signal): a valid signal comes back as it is.
EcgSanitize ==
    /\ ecg_pc = "sanitize"
    /\ ecg_trace' = Append(ecg_trace, "sanitize")
    /\ ecg' = [ecg EXCEPT !.ecg_signal = ecg_call.ecg_signal]
    /\ ecg_pc' = "clean"
    /\ UNCHANGED <<ecg_call, ecg_result>>
    /\ UNCHANGED ppg_vars

\* ecg_cleaned = ecg_clean(ecg_signal, sampling_rate, method)
EcgClean ==
    /\ ecg_pc = "clean"
    /\ ecg_trace' = Append(ecg_trace, "clean")
    /\ \E m \in Lens(ecg_call.n) : ecg' = [ecg EXCEPT !.ecg_cleaned = Const(m, 4)]
    /\ ecg_pc' = "peaks"
    /\ UNCHANGED <<ecg_call, ecg_result>>
    /\ UNCHANGED ppg_vars

\* (instant_peaks, rpeaks) = ecg_peaks(ecg_cleaned, sampling_rate, ...): a mask and
\* the indices of the same events.
EcgPeaks ==
    /\ ecg_pc = "peaks"
    /\ ecg_trace' = Append(ecg_trace, "peaks")
    /\ \E m \in Lens(ecg_call.n) : \E S \in SUBSET (0..(m - 1)) :
         ecg' = [ecg EXCEPT
                   !.instant_peaks = Frame(m, <<Column("ECG_R_Peaks", Dense(S, m))>>),
                   !.rpeaks = SetItem(EmptyDict, "ECG_R_Peaks", Sorted(S))]
    /\ ecg_pc' = "rate"
    /\ UNCHANGED <<ecg_call, ecg_result>>
    /\ UNCHANGED ppg_vars

\* rate = signal_rate(rpeaks, sampling_rate, desired_length=len(ecg_cleaned))
EcgRate ==
    /\ ecg_pc = "rate"
    /\ ecg_trace' = Append(ecg_trace, "rate")
    /\ \E m \in Lens(ecg_call.n) : ecg' = [ecg EXCEPT !.rate = Const(m, 6)]
    /\ ecg_pc' = "quality"
    /\ UNCHANGED <<ecg_call, ecg_result>>
    /\ UNCHANGED ppg_vars

\* quality = ecg_quality(ecg_cleaned, rpeaks["ECG_R_Peaks"], sampling_rate)
EcgQuality ==
    /\ ecg_pc = "quality"
    /\ ecg_trace' = Append(ecg_trace, "quality")
    /\ \E m \in Lens(ecg_call.n) : ecg' = [ecg EXCEPT !.quality = Const(m, 7)]
    /\ ecg_pc' = "assemble"
    /\ UNCHANGED <<ecg_call, ecg_result>>
    /\ UNCHANGED ppg_vars

\* The stages ecg_process invokes, each a call of a collaborator.
EcgStages == {"sanitize", "clean", "peaks", "rate", "quality", "delineate", "phase"}

\* The collaborator invoked at this position raises, whatever the sampling rate is:
\* ecg_process has no try, so the call ends there with that exception, unchanged.
EcgStageRaises ==
    /\ ecg_pc \in EcgStages
    /\ ecg_trace' = Append(ecg_trace, ecg_pc)
    /\ ecg_result' = [kind |-> "error", err |-> [EcgError("CollaboratorError") EXCEPT !.stages = {ecg_pc}]]
    /\ ecg_pc' = "done"
    /\ UNCHANGED <<ecg_call, ecg>>
    /\ UNCHANGED ppg_vars

PrimaryColumns(l) ==
    << Column("ECG_Raw", l.ecg_signal), Column("ECG_Clean", l.ecg_cleaned),
       Column("ECG_Rate", l.rate), Column("ECG_Quality", l.quality) >>

\* signals = pd.DataFrame({"ECG_Raw": ..., "ECG_Clean": ..., "ECG_Rate": ..., "ECG_Quality": ...})
EcgAssemble ==
    /\ ecg_pc = "assemble"
    /\ IF SameLength(PrimaryColumns(ecg))
       THEN /\ ecg' = [ecg EXCEPT !.signals = DataFrame(PrimaryColumns(ecg))]
            /\ ecg_pc' = "delineate"
            /\ UNCHANGED ecg_result
       ELSE /\ ecg_result' = [kind |-> "error", err |-> EcgError("ValueError")]
            /\ ecg_pc' = "done"
            /\ UNCHANGED ecg
    /\ UNCHANGED <<ecg_call, ecg_trace>>
    /\ UNCHANGED ppg_vars

\* delineate_signal, delineate_info = ecg_delineate(ecg_cleaned, rpeaks, sampling_rate)
EcgDelineate ==
    /\ ecg_pc = "delineate"
    /\ ecg_trace' = Append(ecg_trace, "delineate")
    /\ \E m \in Lens(ecg_call.n), names \in DelineateSchemas :
         ecg' = [ecg EXCEPT !.delineate_signal =
                   Frame(m, [i \in 1..Len(names) |-> Column(names[i], OneHot(m))])]
    /\ ecg_pc' = "phase"
    /\ UNCHANGED <<ecg_call, ecg_result>>
    /\ UNCHANGED ppg_vars

\* cardiac_phase = ecg_phase(ecg_cleaned, rpeaks, delineate_info)
EcgPhase ==
    /\ ecg_pc = "phase"
    /\ ecg_trace' = Append(ecg_trace, "phase")
    /\ \E m \in Lens(ecg_call.n), names \in PhaseSchemas :
         ecg' = [ecg EXCEPT !.cardiac_phase =
                   Frame(m, [i \in 1..Len(names) |-> Column(names[i], Const(m, 2))])]
    /\ ecg_pc' = "concat"
    /\ UNCHANGED <<ecg_call, ecg_result>>
    /\ UNCHANGED ppg_vars

\* signals = pd.concat([signals, instant_peaks, delineate_signal, cardiac_phase], axis=1)
EcgConcat ==
    /\ ecg_pc = "concat"
    /\ ecg' = [ecg EXCEPT !.signals =
                 Concat(<<ecg.signals, ecg.instant_peaks, ecg.delineate_signal, ecg.cardiac_phase>>)]
    /\ ecg_pc' = "info"
    /\ UNCHANGED <<ecg_call, ecg_trace, ecg_result>>
    /\ UNCHANGED ppg_vars

\* info = rpeaks; info["sampling_rate"] = sampling_rate; return signals, info.
\* info and rpeaks are one dict.
EcgReturn ==
    /\ ecg_pc = "info"
    /\ LET info == SetItem(ecg.rpeaks, "sampling_rate", ecg_call.sampling_rate)
       IN  /\ ecg' = [ecg EXCEPT !.info = info, !.rpeaks = info]
           /\ ecg_result' = [kind |-> "ok", signals |-> ecg.signals, info |-> info]
    /\ ecg_pc' = "done"
    /\ UNCHANGED <<ecg_call, ecg_trace>>
    /\ UNCHANGED ppg_vars

\* The caller takes what the call gave; ecg_process keeps nothing between calls.
EcgNextCall ==
    /\ ecg_pc = "done"
    /\ ecg_pc' = "idle"
    /\ ecg_call' = NoCall
    /\ ecg_trace' = <<>>
    /\ ecg' = NoLocals
    /\ ecg_result' = NoResult
    /\ UNCHANGED ppg_vars

PpgInit ==
    /\ ppg_pc = "idle"
    /\ ppg_call = NoCall
    /\ ppg_result = NoResult
    /\ ppg_visited = <<>>
    /\ fmt_default = EmptyDict
    /\ hrv_default = EmptyDict

EcgInit ==
    /\ ecg_pc = "idle"
    /\ ecg_call = NoCall
    /\ ecg_trace = <<>>
    /\ ecg = NoLocals
    /\ ecg_result = NoResult

Init == PpgInit /\ EcgInit

PpgNext == PpgSingle \/ PpgCollection \/ PpgNextCall
SpecPpg == Init /\ [][PpgNext]_vars

SingleNext == PpgSingle \/ PpgNextCall
SpecSingle == Init /\ [][SingleNext]_vars

CollNext == PpgCollection \/ PpgNextCall
SpecColl == Init /\ [][CollNext]_vars

EcgNext ==
    \/ EcgCall \/ EcgSanitize \/ EcgClean \/ EcgPeaks \/ EcgRate \/ EcgQuality
    \/ EcgStageRaises \/ EcgAssemble \/ EcgDelineate \/ EcgPhase \/ EcgConcat
    \/ EcgReturn \/ EcgNextCall
SpecEcg == Init /\ [][EcgNext]_vars

Next == PpgNext \/ EcgNext
Spec == Init /\ [][Next]_vars

(***************************************************************************)
(* The claims about ecg_process.                                           *)
(***************************************************************************)
Range(f) == {f[i] : i \in DOMAIN f}
ValidCall == ecg_pc # "idle" /\ ecg_call.sampling_rate > 0

\* The length of what a collaborator gave back.
OutLen(stage) ==
    CASE stage = "sanitize" -> Len(ecg.ecg_signal)
      [] stage = "clean" -> Len(ecg.ecg_cleaned)
      [] stage = "peaks" -> ecg.instant_peaks.rows
      [] stage = "rate" -> Len(ecg.rate)
      [] stage = "quality" -> Len(ecg.quality)
      [] stage = "delineate" -> ecg.delineate_signal.rows
      [] OTHER -> ecg.cardiac_phase.rows

Returned == ecg_pc = "done" /\ ecg_result.kind = "ok"
Raised == ecg_pc = "done" /\ ecg_result.kind = "error"
Aligned == \A stage \in Range(ecg_trace) : OutLen(stage) = ecg_call.n
\* The call ended with the exception of a collaborator.
CollaboratorRaised == Raised /\ ecg_result.err.type = "CollaboratorError"
HasRows(frame, n) ==
    /\ frame.rows = n
    /\ \A i \in 1..Len(frame.cols) : Len(frame.cols[i].vals) = n

\* C1: with a valid input of N samples and collaborators that each give back N
\* samples, every column of the table has exactly N rows: of the primary table once
\* it is assembled, of the merged table, and of the table returned.
C1_LengthInvariance ==
    /\ (ValidCall /\ Aligned /\ ecg_pc \in {"delineate", "phase", "concat", "info"})
         => (Len(ecg.signals.cols) >= 4 /\ HasRows(ecg.signals, ecg_call.n))
    /\ (ValidCall /\ Aligned /\ Returned)
         => (Len(ecg_result.signals.cols) >= 4 /\ HasRows(ecg_result.signals, ecg_call.n))

\* C1's case: a call on MaxN samples, every collaborator aligned, has returned the
\* merged table of nine columns.
C1_Witness ==
    /\ ValidCall /\ Aligned /\ Returned
    /\ ecg_call.n = MaxN
    /\ Len(ecg_result.signals.cols) = 9

\* The frames ecg_process merges, in the order it merges them.
StageFrames ==
    << DataFrame(PrimaryColumns(ecg)), ecg.instant_peaks, ecg.delineate_signal,
       ecg.cardiac_phase >>
NamesOf(frame) == {frame.cols[i].name : i \in 1..Len(frame.cols)}
SharedNames ==
    {c \in UNION {NamesOf(StageFrames[a]) : a \in 1..4} :
        \E a, b \in 1..4 : a < b /\ c \in NamesOf(StageFrames[a]) /\ c \in NamesOf(StageFrames[b])}
LastStageWith(c) == Max({a \in 1..4 : c \in NamesOf(StageFrames[a])})
ColumnNamed(frame, c) == frame.cols[CHOOSE i \in 1..Len(frame.cols) : frame.cols[i].name = c]

\* C4: when two of the merged stage tables have a column of the same name, the table
\* returned has exactly one column of that name, with the later stage's values
\* (stated of the calls with a valid rate whose collaborators are all aligned).
C4_LaterStageWins ==
    (ValidCall /\ Aligned /\ Returned) =>
        \A c \in SharedNames :
            LET hits == {i \in 1..Len(ecg_result.signals.cols) :
                            ecg_result.signals.cols[i].name = c}
                later == Reindex(ColumnNamed(StageFrames[LastStageWith(c)], c),
                                 ecg_result.signals.rows)
            IN  /\ Cardinality(hits) = 1
                /\ \A i \in hits : ecg_result.signals.cols[i].vals = later.vals

Padded(frame) ==
    \E i \in 1..Len(frame.cols) : \E r \in 1..Len(frame.cols[i].vals) :
        frame.cols[i].vals[r] = Missing

\* C5: when a collaborator gives back a column whose length is not N, ecg_process
\* raises an error that names that stage and both lengths, and returns no table; it
\* never returns a table padded with missing values (stated of the calls in which
\* every collaborator invoked gave something back).
C5_AlignmentError ==
    /\ (ValidCall /\ ecg_pc = "done" /\ ~CollaboratorRaised /\ ~Aligned) =>
          /\ ecg_result.kind = "error"
          /\ \E stage \in Range(ecg_trace) :
                /\ OutLen(stage) # ecg_call.n
                /\ stage \in ecg_result.err.stages
                /\ {ecg_call.n, OutLen(stage)} \subseteq ecg_result.err.lengths
    /\ Returned => ~Padded(ecg_result.signals)

\* The mask has a 1 at sample i exactly when i is one of the indices, and as many 1s
\* as there are indices.
SameEvents(mask, indices) ==
    /\ \A i \in 1..Len(mask) : (mask[i] = 1) <=> ((i - 1) \in Range(indices))
    /\ Cardinality({i \in 1..Len(mask) : mask[i] = 1}) = Len(indices)
    /\ Range(indices) \subseteq 0..(Len(mask) - 1)

AfterDetection == ecg_pc \in {"rate", "quality", "assemble", "delineate", "phase", "concat", "info"}

\* C8: the R-peak mask column of the table and the R-peak indices of the info record
\* are the same set of events, in what ecg_process returns and at every step after
\* the detection; and no step after the detection changes the detector's mask or its
\* indices.
C8_MaskMatchesIndices ==
    /\ [](/\ AfterDetection =>
                SameEvents(ColumnNamed(ecg.instant_peaks, "ECG_R_Peaks").vals,
                           ecg.rpeaks["ECG_R_Peaks"])
          /\ Returned =>
                /\ SameEvents(ColumnNamed(ecg_result.signals, "ECG_R_Peaks").vals,
                              ecg_result.info["ECG_R_Peaks"])
                /\ SubSeq(ColumnNamed(ecg_result.signals, "ECG_R_Peaks").vals,
                          1, ecg.instant_peaks.rows)
                     = ColumnNamed(ecg.instant_peaks, "ECG_R_Peaks").vals
                /\ ecg_result.info["ECG_R_Peaks"] = ecg.rpeaks["ECG_R_Peaks"])
    /\ [][AfterDetection =>
            /\ ecg'.instant_peaks = ecg.instant_peaks
            /\ ecg'.rpeaks["ECG_R_Peaks"] = ecg.rpeaks["ECG_R_Peaks"]]_vars

\* C8's case: a table was returned for a detection of two events among MaxN samples,
\* while the delineator gave a column of the name of the mask.
C8_Witness ==
    /\ Returned
    /\ ecg.instant_peaks.rows = MaxN
    /\ Len(ecg_result.info["ECG_R_Peaks"]) = 2
    /\ "ECG_R_Peaks" \in NamesOf(ecg.delineate_signal)

\* C9: called with a sampling rate that is zero or negative, ecg_process invokes no
\* stage, and what it raises is an invalid-input error.
C9_FailsBeforeAnyStage ==
    (ecg_pc # "idle" /\ ecg_call.sampling_rate <= 0) =>
        /\ ecg_trace = <<>>
        /\ ecg_pc = "done" => (Raised /\ ecg_result.err.type = "InvalidInputError")

(***************************************************************************)
(* The claims about ppg_intervalrelated.                                   *)
(***************************************************************************)
SingleDone == ppg_pc = "done" /\ ppg_call.mode = "single"
CollectionDone == ppg_pc = "done" /\ ppg_call.mode = "collection"
PeaksCols(data) == {c \in DOMAIN data : Contains(PPG_Peaks, c)}

\* C2: in single-table mode, when the number of columns whose name matches the rate
\* pattern is zero or more than one, the call raises an error that quotes the rate
\* pattern and returns no row.
C2_RateColumnRequired ==
    (SingleDone /\ Cardinality(RateCols(ppg_call.data)) # 1) =>
        /\ ppg_result.kind = "error"
        /\ ppg_result.err.type = "ValueError"
        /\ PPG_Rate \in ppg_result.err.mentions

\* C2's case: a table with two columns matching the rate pattern, one of them
\* PPG_Rate itself, and an events column, was refused.
C2_Witness ==
    /\ SingleDone
    /\ Cardinality(RateCols(ppg_call.data)) = 2
    /\ PPG_Rate \in DOMAIN ppg_call.data
    /\ PPG_Peaks \in DOMAIN ppg_call.data
    /\ ppg_result.kind = "error"

\* The least of a set of positions; 0 if there is none.
FirstOf(S) == IF S = {} THEN 0 ELSE CHOOSE i \in S : \A j \in S : i <= j
KeysUpTo(data, n) == [i \in 1..n |-> data[i].key]

\* A table lacks a required column: none matches the rate pattern, or none the
\* events pattern.
LacksRequired(table) == RateCols(table) = {} \/ PeaksCols(table) = {}
\* The pattern such a table lacks first, in the order the code asks for them.
MissingPattern(table) == IF RateCols(table) = {} THEN PPG_Rate ELSE PPG_Peaks
\* The first label, in input order, whose table lacks a required column.
FirstLacking(data) == FirstOf({i \in 1..Len(data) : LacksRequired(data[i].table)})

\* A table whose columns have the exact names the loop body reads: a Label column,
\* and no column matching a pattern under a longer name.
ExactNames(table) ==
    /\ Label \in DOMAIN table
    /\ RateCols(table) \subseteq {PPG_Rate}
    /\ PeaksCols(table) \subseteq {PPG_Peaks}

\* C3: in collection mode, the first label whose table lacks a required column
\* aborts the aggregation there, no row is returned, no later label is processed,
\* and the error identifies the label and the missing pattern (stated of the
\* collections whose tables all have a Label column and name their rate and events
\* columns exactly).
C3_ErrorNamesLabel ==
    (/\ CollectionDone
     /\ FirstLacking(ppg_call.data) # 0
     /\ \A i \in 1..Len(ppg_call.data) : ExactNames(ppg_call.data[i].table)) =>
        LET j == FirstLacking(ppg_call.data)
        IN  /\ ppg_result.kind = "error"
            /\ ppg_visited = KeysUpTo(ppg_call.data, j)
            /\ MissingPattern(ppg_call.data[j].table) \in ppg_result.err.mentions
            /\ \/ ppg_call.data[j].key \in ppg_result.err.labels
               \/ ppg_call.data[j].key \in ppg_result.err.mentions

\* C6: in single-table mode, a table with exactly one column matching the rate
\* pattern, whatever its full name, and an events column gets a row whose
\* PPG_Rate_Mean is the arithmetic mean of that column.
C6_MeanOfMatchingColumn ==
    (SingleDone /\ Cardinality(RateCols(ppg_call.data)) = 1 /\ PeaksCols(ppg_call.data) # {}) =>
        /\ ppg_result.kind = "row"
        /\ \A c \in RateCols(ppg_call.data) :
              ppg_result.row["PPG_Rate_Mean"] = Mean(ppg_call.data[c])

Without(row, name) == [c \in DOMAIN row \ {name} |-> row[c]]

\* C7: in collection mode, what each label gets (its row apart from Label, or its
\* error) is what single-table mode gives for that label's table alone.  The tables
\* are those that have the Label field the row is said to carry.
C7_SameAsSingleTable ==
    (CollectionDone /\ \A i \in 1..Len(ppg_call.data) : Label \in DOMAIN ppg_call.data[i].table) =>
        \A i \in 1..Len(ppg_visited) :
            LET alone == SingleResult(SingleTable(ppg_call.data[i].table,
                             ppg_call.sampling_rate, fmt_default, hrv_default))
            IN  IF ppg_result.kind = "frame"
                THEN /\ alone.kind = "row"
                     /\ alone.row = Without(ppg_result.frame[i].row, "Label")
                ELSE IF i = Len(ppg_visited)
                THEN alone = ppg_result
                ELSE alone.kind = "row"

\* C10: the result of a call depends on its arguments alone: it is the result the
\* same call gives when no call was made before it.
C10_NoStateAcrossCalls ==
    /\ SingleDone =>
          ppg_result = SingleResult(SingleTable(ppg_call.data, ppg_call.sampling_rate,
                                                EmptyDict, EmptyDict))
    /\ CollectionDone =>
          ppg_result = CollectionResult(CollectionLoop(ppg_call.data,
                                            ppg_call.sampling_rate, 1, <<>>))

====
